---------------------------- MODULE Spec2Model ----------------------------
(***************************************************************************)
(* A model of scripts/generate_test_data.py: the test-data generator that  *)
(* reads a Salesforce "describe" JSON and writes a CSV of random rows.     *)
(*                                                                         *)
(* Strings are TLA+ strings (TLC evaluates Len, \o and SubSeq on them), so *)
(* the prefix / suffix tests of the source are computed character by       *)
(* character.  Python dicts are functions whose DOMAIN is the key set;     *)
(* Python lists are sequences, and a Python list index i is position i+1.  *)
(***************************************************************************)
EXTENDS Integers, Sequences, FiniteSets, TLC

VARIABLES
    pc,             \* position of main(): "load","build","header","rows","fields","write","done"
    meta,           \* json.load(f).get('result'): [fields, recordTypeInfos]
    args,           \* parse_args(): [rows, skips, person_rt_dev_name]
    fields,         \* the filtered field list
    rtinfos,        \* the filtered record-type list
    ctrl_vals_map,  \* controller name -> list of its option values
    dep_map,        \* dependent field name -> (controller index -> list of values)
    country_map,    \* compound prefix -> list of {value,label}
    state_map,      \* compound prefix -> (country index -> list of {value,label})
    bi,             \* index of the next field of the "Prepare mappings" loop
    header,         \* the header row written by writer.writeheader()
    out,            \* the body rows written so far
    rt,             \* the record type id chosen for the current row
    is_person,      \* the person / business flag of the current row
    row,            \* the dict of the row under construction
    comp_sel,       \* the per-row compound selections
    fi,             \* index of the next field of the per-row loop
    probe           \* a decode_valid_for / valid_for evaluation under way

vars == << pc, meta, args, fields, rtinfos, ctrl_vals_map, dep_map, country_map,
           state_map, bi, header, out, rt, is_person, row, comp_sel, fi, probe >>

-----------------------------------------------------------------------------
(* Bounds of the exploration.                                              *)

\* the largest --rows value explored
MaxRows == 2
\* the largest number of fields that are skipped or non-createable in one run
MaxBlocked == 1
\* the largest number of bytes of a decoded mask handed to valid_for directly
MaxMaskLen == 2
\* the largest index asked of valid_for beyond the end of the longest mask
MaxIdxSlack == 2

-----------------------------------------------------------------------------
(* Python values and string methods.                                       *)

\* Python's None, where the source can produce it (dict.get without default)
None == "<None>"

\* an empty dict
EmptyDict == [k \in {} |-> None]

\* d[k] = v
Put(d, k, v) == [x \in (DOMAIN d) \cup {k} |-> IF x = k THEN v ELSE d[x]]

\* d.get(k, dflt)
Get(d, k, dflt) == IF k \in DOMAIN d THEN d[k] ELSE dflt

\* s.startswith(p)
StartsWith(s, p) == Len(p) <= Len(s) /\ SubSeq(s, 1, Len(p)) = p

\* s.endswith(p)
EndsWith(s, p) == Len(p) <= Len(s) /\ SubSeq(s, Len(s) - Len(p) + 1, Len(s)) = p

\* s[:-n] for n > 0
DropLast(s, n) == IF n >= Len(s) THEN "" ELSE SubSeq(s, 1, Len(s) - n)

\* s[n:]
DropFirst(s, n) == IF n >= Len(s) THEN "" ELSE SubSeq(s, n + 1, Len(s))

RECURSIVE LStrip(_)
\* s.lstrip('_')
LStrip(s) == IF Len(s) > 0 /\ SubSeq(s, 1, 1) = "_" THEN LStrip(DropFirst(s, 1)) ELSE s

\* the elements of a list
Range(s) == {s[i] : i \in 1..Len(s)}

\* min(a, b)
Min(a, b) == IF a <= b THEN a ELSE b

\* max(a, b)
Max(a, b) == IF a >= b THEN a ELSE b

-----------------------------------------------------------------------------
(* base64.b64decode (validate=False), decode_valid_for and valid_for.      *)

B64Alphabet == "ABCDEFGHIJKLMNOPQRSTUVWXYZabcdefghijklmnopqrstuvwxyz0123456789+/"

\* the 6-bit value of a base-64 character
B64Value(c) == (CHOOSE i \in 1..Len(B64Alphabet) : SubSeq(B64Alphabet, i, i) = c) - 1

IsB64Char(c) == \E i \in 1..Len(B64Alphabet) : SubSeq(B64Alphabet, i, i) = c

RECURSIVE B64Scan(_, _, _, _)
\* binascii.a2b_base64 in its default (non-strict) mode, reading s with quad data
\* characters of the current quantum seen, pads padding characters counted and
\* data the 6-bit values so far: characters outside the alphabet are discarded, a
\* padding that completes the quantum ends the parse, and input that ends inside a
\* quantum raises
B64Scan(s, quad, pads, data) ==
    IF s = "" THEN [raises |-> quad # 0, data |-> data]
    ELSE LET c == SubSeq(s, 1, 1)
             rest == DropFirst(s, 1)
         IN  IF c = "="
             THEN IF quad >= 2 /\ quad + pads + 1 >= 4
                  THEN [raises |-> FALSE, data |-> data]
                  ELSE B64Scan(rest, quad, IF quad >= 2 THEN pads + 1 ELSE pads, data)
             ELSE IF ~IsB64Char(c)
             THEN B64Scan(rest, quad, pads, data)
             ELSE B64Scan(rest, (quad + 1) % 4, 0, Append(data, B64Value(c)))

RECURSIVE B64Bytes(_)
\* the bytes of a list of 6-bit values whose length is not 1 modulo 4
B64Bytes(d) ==
    IF Len(d) = 0 THEN << >>
    ELSE IF Len(d) = 2 THEN << d[1] * 4 + d[2] \div 16 >>
    ELSE IF Len(d) = 3 THEN << d[1] * 4 + d[2] \div 16, (d[2] % 16) * 16 + d[3] \div 4 >>
    ELSE << d[1] * 4 + d[2] \div 16, (d[2] % 16) * 16 + d[3] \div 4, (d[3] % 4) * 64 + d[4] >>
         \o B64Bytes(SubSeq(d, 5, Len(d)))

\* whether base64.b64decode(v) raises: v is None (TypeError) or the input ends
\* inside a quantum (binascii.Error)
B64Raises(v) == v = None \/ B64Scan(v, 0, 0, << >>).raises

\* base64.b64decode(v) where it does not raise
b64decode(v) == B64Bytes(B64Scan(v, 0, 0, << >>).data)

\* try: return base64.b64decode(v) / except: return b''
decode_valid_for(v) == IF B64Raises(v) THEN << >> ELSE b64decode(v)

\* valid_for numbering the bits of a byte from the least significant one
valid_for_LsbFirst(vb, idx) ==
    IF Len(vb) > 0 /\ idx \div 8 < Len(vb)
    THEN (vb[idx \div 8 + 1] \div (2 ^ (idx % 8))) % 2
    ELSE 0

\* (vb[idx//8] >> (7 - (idx % 8)) & 1) if vb and idx//8 < len(vb) else 0
valid_for(vb, idx) ==
    IF Len(vb) > 0 /\ idx \div 8 < Len(vb)
    THEN (vb[idx \div 8 + 1] \div (2 ^ (7 - (idx % 8)))) % 2
    ELSE 0

-----------------------------------------------------------------------------
(* Program constants.                                                      *)

SYSTEM_FIELDS == {"IsDeleted", "CreatedById", "CreatedDate", "LastModifiedById",
                  "LastModifiedDate", "SystemModstamp"}
EXCLUDE_RT_NAMES == {"マスター", "マスタ"}
NUMERIC_TYPES == {"double", "currency", "percent", "int", "integer"}

-----------------------------------------------------------------------------
(* The describe documents explored: field definitions, record types and    *)
(* the command lines they are run with.                                    *)

\* a picklistValues entry
Opt(value, label, validFor) == [value |-> value, label |-> label, validFor |-> validFor]

\* a field definition of the describe document
Field(name, type, length, nillable, picklistValues, controllerName, compoundFieldName) ==
    [name |-> name, type |-> type, length |-> length, nillable |-> nillable,
     createable |-> TRUE, calculated |-> FALSE, precision |-> 0, scale |-> 0,
     picklistValues |-> picklistValues, controllerName |-> controllerName,
     compoundFieldName |-> compoundFieldName]

\* a recordTypeInfos entry
RecordType(recordTypeId, name, developerName, active) ==
    [recordTypeId |-> recordTypeId, name |-> name, developerName |-> developerName,
     active |-> active]

\* the standard address compound: country US allows the states CA and NY, country
\* JP allows none, country CA allows the state ON
AddressFields ==
    { Field("BillingCountryCode", "picklist", 10, TRUE,
            << Opt("US", "United States", None), Opt("JP", "Japan", None),
               Opt("CA", "Canada", None) >>, "", "BillingAddress"),
      Field("BillingCountry", "string", 80, TRUE, << >>, "", "BillingAddress"),
      Field("BillingStateCode", "picklist", 10, TRUE,
            << Opt("CA", "California", "gA=="), Opt("NY", "New York", "gA=="),
               Opt("ON", "Ontario", "IA==") >>, "BillingCountryCode", "BillingAddress"),
      Field("BillingState", "string", 80, TRUE, << >>, "", "BillingAddress") }

\* a controlling picklist, a picklist that depends on it and one whose controller
\* is no field of the document
DependentFields ==
    { Field("Category", "picklist", 40, TRUE,
            << Opt("Food", "Food", None), Opt("Tool", "Tool", None) >>, "", ""),
      Field("SubCategory", "picklist", 40, TRUE,
            << Opt("Fruit", "Fruit", "gA=="), Opt("Saw", "Saw", "QA=="),
               Opt("Misc", "Misc", "wA==") >>, "Category", ""),
      Field("Detail", "picklist", 40, TRUE,
            << Opt("Red", "Red", "gA=="), Opt("Blue", "Blue", "QA==") >>, "Missing", "") }

Salutations == << Opt("Mr.", "Mr.", None), Opt("Ms.", "Ms.", None) >>

\* field lists whose order does not matter to any rule of the generator
FixedSchemas ==
    { << Field("Note", "string", 2, FALSE, << >>, "", ""),
         Field("Memo", "textarea", 2, TRUE, << >>, "", ""),
         Field("CreatedDate", "datetime", 0, FALSE, << >>, "", ""),
         [Field("Score__c", "double", 0, TRUE, << >>, "", "") EXCEPT !.calculated = TRUE] >>,
      << Field("BillingCity", "string", 3, TRUE, << >>, "", "BillingAddress"),
         Field("BillingStreet", "textarea", 2, TRUE, << >>, "", "BillingAddress"),
         Field("BillingPostalCode", "string", 20, TRUE, << >>, "", "BillingAddress"),
         Field("Latitude", "string", 4, TRUE, << >>, "", "") >>,
      << [Field("Amount", "double", 0, TRUE, << >>, "", "") EXCEPT !.precision = 3, !.scale = 1],
         Field("Phone", "phone", 40, TRUE, << >>, "", "") >>,
      << Field("Where", "location", 0, TRUE, << >>, "", ""),
         Field("Tags", "multipicklist", 100, TRUE,
               << Opt("a", "A", None), Opt("b", "B", None) >>, "", "") >>,
      << Field("Email", "email", 80, TRUE, << >>, "", ""),
         Field("Website", "url", 255, TRUE, << >>, "", "") >>,
      << Field("Birthday", "date", 0, TRUE, << >>, "", ""),
         Field("Stamp", "datetime", 0, TRUE, << >>, "", "") >>,
      << Field("Longitude", "string", 20, TRUE, << >>, "", "") >>,
      << Field("Site__CountryCode__s", "picklist", 10, TRUE,
               << Opt("US", "United States", None), Opt("JP", "Japan", None) >>, "", "Site__c"),
         Field("Site__StateCode__s", "picklist", 10, TRUE,
               << Opt("CA", "California", "gA==") >>, "Site__CountryCode__s", "Site__c"),
         Field("Site__Latitude__s", "double", 0, TRUE, << >>, "", "Site__c") >> }

\* Account field lists with the person / business identity fields
IdentitySchemas ==
    { << Field("RecordTypeId", "reference", 18, TRUE, << >>, "", ""),
         Field("Name", "string", 3, FALSE, << >>, "", ""),
         Field("LastName", "string", 80, FALSE, << >>, "", ""),
         Field("FirstName", "string", 40, TRUE, << >>, "", "") >>,
      << Field("Name", "string", 3, FALSE, << >>, "", ""),
         Field("Salutation", "picklist", 40, TRUE, Salutations, "", ""),
         Field("PersonTitle", "string", 2, TRUE, << >>, "", ""),
         Field("Nick__pc", "string", 5, TRUE, << >>, "", "") >>,
      << Field("Nick__pc", "string", 5, TRUE, << >>, "", "") >> }

\* record-type lists: none; none eligible; a business and a person record type
\* among a master and an inactive one
RecordTypeLists ==
    { << >>,
      << RecordType("012M", "マスター", "Master", TRUE),
         RecordType("012X", "Old", "PersonAccount", FALSE) >>,
      << RecordType("012M", "マスター", "Master", TRUE),
         RecordType("012B", "Business", "Business", TRUE),
         RecordType("012X", "Old", "PersonAccount", FALSE),
         RecordType("012P", "Person", "PersonAccount", TRUE) >> }

RECURSIVE Perms(_)
\* the lists that hold every element of S once
Perms(S) == IF S = {} THEN { << >> }
            ELSE UNION { { << x >> \o p : p \in Perms(S \ {x}) } : x \in S }

\* every order of every subset of S
Orders(S) == UNION { Perms(T) : T \in SUBSET S }

\* the describe documents with the --person-rt-dev-name they are run with
Scenarios ==
    { [fields |-> f, recordTypeInfos |-> << >>, person |-> None] :
        f \in Orders(AddressFields) \cup Orders(DependentFields) \cup FixedSchemas }
    \cup
    { [fields |-> f, recordTypeInfos |-> r, person |-> p] :
        f \in IdentitySchemas, r \in RecordTypeLists, p \in {None, "PersonAccount"} }

\* the names of a field list
Names(fs) == { fs[i].name : i \in 1..Len(fs) }

\* the (skip set, non-createable set) pairs explored for a field list
Blockings(fs) ==
    { << s, n >> \in (SUBSET Names(fs)) \X (SUBSET Names(fs)) :
        Cardinality(s) + Cardinality(n) <= MaxBlocked }

-----------------------------------------------------------------------------
(* Value synthesis.  A random character is represented by one character,   *)
(* a random number or date by the ends of its range: the length and the    *)
(* shape of a value are kept, its characters are not.                      *)

RECURSIVE Rep(_, _)
\* c * n
Rep(c, n) == IF n <= 0 THEN "" ELSE c \o Rep(c, n - 1)

\* random.choice(opts) if opts else dflt
Choice(opts, dflt) == IF Len(opts) > 0 THEN Range(opts) ELSE {dflt}

random_japanese(length) == IF length <= 0 THEN {""} ELSE {Rep("x", length)}

random_number(precision, scale) ==
    LET int_d == Max(1, precision - scale)
    IN  { i \o frac : i \in {"0", Rep("9", int_d)},
                      frac \in IF scale > 0 THEN {"." \o Rep("0", scale), "." \o Rep("9", scale)}
                               ELSE {""} }

random_phone == {"090-0000-0000", "0999-9999-9999"}
random_email == {Rep("a", 6) \o "@example.com", Rep("9", 12) \o "@example.com"}
random_url == {"https://example.com/" \o Rep("a", 5), "https://example.com/" \o Rep("9", 12)}
random_date == {"1700-01-01", "4000-12-31"}
random_datetime == {"1700-01-01T00:00:00.000Z", "4000-12-31T23:59:59.999Z"}

\* [o['value'] for o in picklistValues]
Values(opts) == [i \in 1..Len(opts) |-> opts[i].value]

\* [{'value': o['value'], 'label': o['label']} for o in picklistValues]
Pairs(opts) == [i \in 1..Len(opts) |-> [value |-> opts[i].value, label |-> opts[i].label]]

RECURSIVE Join(_)
\* ';'.join(vals)
Join(vals) == IF Len(vals) = 0 THEN ""
              ELSE IF Len(vals) = 1 THEN vals[1]
              ELSE vals[1] \o ";" \o Join(Tail(vals))

\* ';'.join(random.sample(opts, random.randint(1, len(opts)))) if opts else ''
MultiChoice(opts) ==
    IF Len(opts) = 0 THEN {""}
    ELSE { Join([i \in 1..Len(p) |-> opts[p[i]]]) :
             p \in UNION { Perms(T) : T \in (SUBSET (1..Len(opts))) \ {{}} } }

-----------------------------------------------------------------------------
(* Schema loading (main, lines 125-128).                                   *)

KeepField(f) == ~f.calculated /\ f.name \notin SYSTEM_FIELDS

\* meta.get('fields', []) filtered: a document without the key has no fields
LoadFields(m) == SelectSeq(Get(m, "fields", << >>), KeepField)

\* EligibleRecordType without the active test
EligibleRecordType_AnyActivity(r) == r.name \notin EXCLUDE_RT_NAMES

EligibleRecordType(r) == r.active /\ r.name \notin EXCLUDE_RT_NAMES

LoadRecordTypes(m) == SelectSeq(m.recordTypeInfos, EligibleRecordType)

\* all_rts
all_rts == [i \in 1..Len(rtinfos) |-> rtinfos[i].recordTypeId]

RECURSIVE DictOf(_, _)
\* {rt['recordTypeId']: rt.get('developerName') for rt in rts}, onto d
DictOf(rts, d) ==
    IF Len(rts) = 0 THEN d
    ELSE DictOf(Tail(rts), Put(d, Head(rts).recordTypeId, Head(rts).developerName))

id_to_dev == DictOf(rtinfos, EmptyDict)

-----------------------------------------------------------------------------
(* Compound-group name and role of a field (lines 149-161 and 212-221).    *)

CompOf(fdef) ==
    LET comp_raw == fdef.compoundFieldName
    IN  IF EndsWith(comp_raw, "__c") THEN DropLast(comp_raw, 3)
        ELSE IF EndsWith(comp_raw, "Address") THEN DropLast(comp_raw, 7)
        ELSE ""

SuffixOf(fdef) ==
    LET comp == CompOf(fdef)
        nm == fdef.name
        api == IF EndsWith(nm, "__s") THEN DropLast(nm, 3) ELSE nm
    IN  LStrip(IF StartsWith(api, comp) THEN DropFirst(api, Len(comp)) ELSE "")

-----------------------------------------------------------------------------
(* The "Prepare mappings" loop (lines 136-169), one field at a time.       *)

\* next((x for x in fields if x['name'] == ctrl), None), as a set of at most one
FirstNamed(fs, ctrl) ==
    LET hits == { i \in 1..Len(fs) : fs[i].name = ctrl }
    IN  IF hits = {} THEN {} ELSE { fs[CHOOSE i \in hits : \A j \in hits : i <= j] }

\* ctrl_vals_map after lines 140-143
CtrlValsStep(fdef, fs, cvm) ==
    LET ctrl == fdef.controllerName
    IN  IF ctrl # "" /\ ctrl \notin DOMAIN cvm /\ FirstNamed(fs, ctrl) # {}
        THEN Put(cvm, ctrl, Values((CHOOSE c \in FirstNamed(fs, ctrl) : TRUE).picklistValues))
        ELSE cvm

\* [o['value'] for vb, o in zip(vbs, raw) if valid_for(vb, i)]
AllowedValues(raw, i) ==
    LET Ok(o) == valid_for(decode_valid_for(o.validFor), i) # 0
    IN  Values(SelectSeq(raw, Ok))

\* dep_map after lines 144-147
DepStep(fdef, cvm, dm) ==
    IF fdef.controllerName # ""
    THEN LET vals == Get(cvm, fdef.controllerName, << >>)
         IN  Put(dm, fdef.name, [i \in 0..(Len(vals) - 1) |-> AllowedValues(fdef.picklistValues, i)])
    ELSE dm

\* country_map after lines 162-163
CountryStep(fdef, cm) ==
    IF CompOf(fdef) # "" /\ SuffixOf(fdef) = "CountryCode"
    THEN Put(cm, CompOf(fdef), Pairs(fdef.picklistValues))
    ELSE cm

\* the states allowed for country index idx, line 168
AllowedStates(raw, idx) ==
    LET Ok(o) == valid_for(decode_valid_for(o.validFor), idx) # 0
    IN  Pairs(SelectSeq(raw, Ok))

\* state_map after lines 164-169
StateStep(fdef, cm, sm) ==
    IF CompOf(fdef) # "" /\ SuffixOf(fdef) = "StateCode"
    THEN LET countries == Get(cm, CompOf(fdef), << >>)
         IN  Put(sm, CompOf(fdef),
                 [idx \in 0..(Len(countries) - 1) |-> AllowedStates(fdef.picklistValues, idx)])
    ELSE sm

-----------------------------------------------------------------------------
(* One row (lines 175-278).                                                *)

\* IsPerson without the test that a person developer name was given
IsPerson_Unguarded(person, dev) == dev = person

\* is_person = (args.person_rt_dev_name and dev == args.person_rt_dev_name)
IsPerson(person, dev) == person # None /\ person # "" /\ dev = person

\* Blocked without the createable test
Blocked_SkipsOnly(fdef, skips) == fdef.name \in skips

\* not fdef.get('createable', True) or nm in skips
Blocked(fdef, skips) == ~fdef.createable \/ fdef.name \in skips

\* SelectedLabel reading the option's code
SelectedLabel_Code(sel, key) == IF key \in DOMAIN sel THEN sel[key].value ELSE ""

\* the label cell of a Country / State field: comp_sel.get(key, {}).get('label', '')
SelectedLabel(sel, key) == IF key \in DOMAIN sel THEN sel[key].label ELSE ""

\* next((i for i, e in enumerate(country_map.get(comp, [])) if e == comp_sel.get(comp)), 0)
CountryIndex(cm, sel, comp) ==
    LET countries == Get(cm, comp, << >>)
        hits == IF comp \in DOMAIN sel
                THEN { i \in 1..Len(countries) : countries[i] = sel[comp] }
                ELSE {}
    IN  IF hits = {} THEN 0 ELSE (CHOOSE i \in hits : \A j \in hits : i <= j) - 1

\* vals.index(row[ctrl]) if row[ctrl] in vals else 0
ControllerIndex(vals, v) ==
    LET hits == { i \in 1..Len(vals) : vals[i] = v }
    IN  IF hits = {} THEN 0 ELSE (CHOOSE i \in hits : \A j \in hits : i <= j) - 1

\* the length drawn for a string / textarea cell, lines 254-257
TextLengths(fdef) ==
    LET max_len == fdef.length
        min_len == IF fdef.nillable THEN 0 ELSE 1
    IN  IF max_len > 0 THEN min_len..max_len ELSE {0}

\* the dispatch on the declared type, lines 252-277
TypedValues(fdef) ==
    LET t == fdef.type
    IN  IF t \in {"string", "textarea"}
        THEN UNION { random_japanese(length) : length \in TextLengths(fdef) }
        ELSE IF t = "picklist" THEN Choice(Values(fdef.picklistValues), "")
        ELSE IF t \in {"multipicklist", "multiselectpicklist"}
        THEN MultiChoice(Values(fdef.picklistValues))
        ELSE IF t \in NUMERIC_TYPES THEN random_number(fdef.precision, fdef.scale)
        ELSE IF t = "phone" THEN random_phone
        ELSE IF t = "email" THEN random_email
        ELSE IF t = "url" THEN random_url
        ELSE IF t = "date" THEN random_date
        ELSE IF t = "datetime" THEN random_datetime
        ELSE {""}

\* the outcomes of one iteration of the per-row field loop (lines 185-277) for
\* field fdef: the cell value and the compound selections after it
FieldOutcomes(fdef, r, sel, rtid, person, skips, cm, sm, cvm, dm) ==
    LET nm == fdef.name
        comp == CompOf(fdef)
        suffix == SuffixOf(fdef)
        ctrl == fdef.controllerName
        NoPair == [value |-> "", label |-> ""]
        Plain(vs) == { [value |-> v, sel |-> sel] : v \in vs }
    IN  IF Blocked(fdef, skips) THEN Plain({""})
        ELSE IF nm = "RecordTypeId" THEN Plain({rtid})
        ELSE IF StartsWith(nm, "Person") /\ ~person THEN Plain({""})
        ELSE IF EndsWith(nm, "__pc")
        THEN Plain(IF person THEN random_japanese(10) ELSE {""})
        ELSE IF nm = "Name"
        THEN Plain(IF person THEN {""}
                   ELSE random_japanese(Min(IF fdef.length # 0 THEN fdef.length ELSE 10, 50)))
        ELSE IF nm = "LastName" THEN Plain(IF person THEN random_japanese(10) ELSE {""})
        ELSE IF nm = "FirstName" THEN Plain(IF person THEN random_japanese(10) ELSE {""})
        ELSE IF nm = "Salutation"
        THEN Plain(IF person THEN Choice(Values(fdef.picklistValues), "") ELSE {""})
        ELSE IF comp # "" /\ suffix = "CountryCode"
        THEN { [value |-> c.value, sel |-> Put(sel, comp, c)] :
                 c \in Choice(Get(cm, comp, << >>), NoPair) }
        ELSE IF comp # "" /\ suffix = "Country" THEN Plain({SelectedLabel(sel, comp)})
        ELSE IF comp # "" /\ suffix = "StateCode"
        THEN LET idx == CountryIndex(cm, sel, comp)
                 opts == Get(Get(sm, comp, EmptyDict), idx, << >>)
             IN  { [value |-> c.value, sel |-> Put(sel, comp \o "_state", c)] :
                     c \in Choice(opts, NoPair) }
        ELSE IF comp # "" /\ suffix = "State"
        THEN Plain({SelectedLabel(sel, comp \o "_state")})
        ELSE IF comp # "" /\ suffix = "City"
        THEN Plain(random_japanese(IF Min(fdef.length, 10) # 0 THEN Min(fdef.length, 10) ELSE 10))
        ELSE IF comp # "" /\ suffix = "PostalCode" THEN Plain({"100-1000", "999-9999"})
        ELSE IF comp # "" /\ suffix = "Street"
        THEN Plain(random_japanese(IF fdef.length # 0 THEN fdef.length ELSE 20))
        ELSE IF suffix = "Latitude" THEN Plain({"-90.000000", "90.000000"})
        ELSE IF suffix = "Longitude" THEN Plain({"-180.000000", "180.000000"})
        ELSE IF ctrl # "" /\ ctrl \in DOMAIN r
        THEN LET vals == Get(cvm, ctrl, << >>)
                 idx == ControllerIndex(vals, r[ctrl])
             IN  Plain(Choice(Get(Get(dm, nm, EmptyDict), idx, << >>), ""))
        ELSE Plain(TypedValues(fdef))

\* csv.DictWriter.writerow(row): one cell per header field, '' for a missing key
WrittenRow(hdr, r) == [i \in 1..Len(hdr) |-> Get(r, hdr[i], "")]

-----------------------------------------------------------------------------
(* The program.                                                            *)

\* the value of the probe while main() runs
NoProbe == [stage |-> "idle"]

Init ==
    /\ pc = "load"
    /\ \/ \E sc \in Scenarios :
            \E b \in Blockings(sc.fields) :
              \E n \in 0..MaxRows :
                /\ meta = [fields |-> [i \in 1..Len(sc.fields) |->
                                         IF sc.fields[i].name \in b[2]
                                         THEN [sc.fields[i] EXCEPT !.createable = FALSE]
                                         ELSE sc.fields[i]],
                           recordTypeInfos |-> sc.recordTypeInfos]
                /\ args = [rows |-> n, skips |-> b[1], person_rt_dev_name |-> sc.person]
       \* a describe document that has no 'fields' key at all
       \/ \E n \in 0..MaxRows :
            /\ meta = [recordTypeInfos |-> << >>]
            /\ args = [rows |-> n, skips |-> {}, person_rt_dev_name |-> None]
    /\ fields = << >>
    /\ rtinfos = << >>
    /\ ctrl_vals_map = EmptyDict
    /\ dep_map = EmptyDict
    /\ country_map = EmptyDict
    /\ state_map = EmptyDict
    /\ bi = 1
    /\ header = << >>
    /\ out = << >>
    /\ rt = ""
    /\ is_person = FALSE
    /\ row = EmptyDict
    /\ comp_sel = EmptyDict
    /\ fi = 1
    /\ probe = NoProbe

\* lines 125-129: filter the fields and the record types
LoadSchema ==
    /\ pc = "load"
    /\ fields' = LoadFields(meta)
    /\ rtinfos' = LoadRecordTypes(meta)
    /\ pc' = "build"
    /\ UNCHANGED << meta, args, ctrl_vals_map, dep_map, country_map, state_map, bi,
                    header, out, rt, is_person, row, comp_sel, fi, probe >>

\* lines 136-169: one iteration of the "Prepare mappings" loop
BuildField ==
    /\ pc = "build"
    /\ bi <= Len(fields)
    /\ LET fdef == fields[bi]
           cvm == CtrlValsStep(fdef, fields, ctrl_vals_map)
           cm == CountryStep(fdef, country_map)
       IN  /\ ctrl_vals_map' = cvm
           /\ dep_map' = DepStep(fdef, cvm, dep_map)
           /\ country_map' = cm
           /\ state_map' = StateStep(fdef, cm, state_map)
    /\ bi' = bi + 1
    /\ UNCHANGED << pc, meta, args, fields, rtinfos, header, out, rt, is_person, row,
                    comp_sel, fi, probe >>

\* lines 172-174: open the output and write the header
WriteHeader ==
    /\ pc = "build"
    /\ bi > Len(fields)
    /\ header' = [i \in 1..Len(fields) |-> fields[i].name]
    /\ pc' = "rows"
    /\ UNCHANGED << meta, args, fields, rtinfos, ctrl_vals_map, dep_map, country_map,
                    state_map, bi, out, rt, is_person, row, comp_sel, fi, probe >>

\* RowsLeft running the loop once more
RowsLeft_OneMore == Len(out) <= args.rows

\* the bound of the row loop, line 175: for _ in range(args.rows)
RowsLeft == Len(out) < args.rows

\* BeginRow with comp_sel created once, next to the tables of lines 131-135,
\* instead of once per row
BeginRow_KeepSelection ==
    /\ pc = "rows"
    /\ RowsLeft
    /\ \E id \in Choice(all_rts, "") :
         /\ rt' = id
         /\ is_person' = IsPerson(args.person_rt_dev_name, Get(id_to_dev, id, None))
    /\ row' = EmptyDict
    /\ fi' = 1
    /\ pc' = "fields"
    /\ UNCHANGED << meta, args, fields, rtinfos, ctrl_vals_map, dep_map, country_map,
                    state_map, bi, header, out, comp_sel, probe >>

\* lines 176-183: choose the record type and the variant, start an empty row
BeginRow ==
    /\ pc = "rows"
    /\ RowsLeft
    /\ \E id \in Choice(all_rts, "") :
         /\ rt' = id
         /\ is_person' = IsPerson(args.person_rt_dev_name, Get(id_to_dev, id, None))
    /\ row' = EmptyDict
    /\ comp_sel' = EmptyDict
    /\ fi' = 1
    /\ pc' = "fields"
    /\ UNCHANGED << meta, args, fields, rtinfos, ctrl_vals_map, dep_map, country_map,
                    state_map, bi, header, out, probe >>

\* lines 184-277: one iteration of the per-row field loop
GenField ==
    /\ pc = "fields"
    /\ fi <= Len(fields)
    /\ \E o \in FieldOutcomes(fields[fi], row, comp_sel, rt, is_person, args.skips,
                              country_map, state_map, ctrl_vals_map, dep_map) :
         /\ row' = Put(row, fields[fi].name, o.value)
         /\ comp_sel' = o.sel
    /\ fi' = fi + 1
    /\ UNCHANGED << pc, meta, args, fields, rtinfos, ctrl_vals_map, dep_map, country_map,
                    state_map, bi, header, out, rt, is_person, probe >>

\* line 278: writer.writerow(row)
WriteRow ==
    /\ pc = "fields"
    /\ fi > Len(fields)
    /\ out' = Append(out, WrittenRow(header, row))
    /\ pc' = "rows"
    /\ UNCHANGED << meta, args, fields, rtinfos, ctrl_vals_map, dep_map, country_map,
                    state_map, bi, header, rt, is_person, row, comp_sel, fi, probe >>

\* the row loop ends and the output is closed
Finish ==
    /\ pc = "rows"
    /\ ~RowsLeft
    /\ pc' = "done"
    /\ UNCHANGED << meta, args, fields, rtinfos, ctrl_vals_map, dep_map, country_map,
                    state_map, bi, header, out, rt, is_person, row, comp_sel, fi, probe >>

Next ==
    \/ LoadSchema
    \/ BuildField
    \/ WriteHeader
    \/ BeginRow
    \/ GenField
    \/ WriteRow
    \/ Finish

Spec == Init /\ [][Next]_vars

-----------------------------------------------------------------------------
(* Properties of the generated rows.                                       *)

\* writer.writeheader() has run
HeaderWritten == pc \notin {"load", "build"}

\* the positions of the header / field list
Cols == 1..Len(fields)

\* the body rows written
Rows == 1..Len(out)

\* field i is in the skip set or declared non-createable
Forced(i) == ~fields[i].createable \/ fields[i].name \in args.skips

\* the state right after writer.writerow: the last row of the output is the row
\* generated for the record type in rt.  Every row of the output is the last one
\* in the state that follows its writing, so a property of the last row in all
\* these states is a property of every generated row.
RowJustWritten == pc = "rows" /\ Len(out) >= 1

LastRow == out[Len(out)]

\* C1: in every generated row, a field that is in the skip set or declared
\* non-createable has the empty string as its cell, whatever its name or type.
C1_ForcedFieldsAreEmpty ==
    RowJustWritten => \A i \in Cols : Forced(i) => LastRow[i] = ""

\* a business row was written whose non-createable Name stayed empty, and a row
\* with a record type whose skipped RecordTypeId stayed empty is possible too
C1_Witness ==
    /\ RowJustWritten
    /\ ~is_person
    /\ \E i \in Cols : /\ fields[i].name = "Name"
                       /\ ~fields[i].createable
                       /\ fields[i].name \notin args.skips
                       /\ LastRow[i] = ""

\* the row of record type rt is person variant: a person developer name is given
\* and is the developer name of the selected record type
PersonRow ==
    /\ args.person_rt_dev_name \notin {None, ""}
    /\ \E j \in 1..Len(meta.recordTypeInfos) :
         /\ meta.recordTypeInfos[j].recordTypeId = rt
         /\ meta.recordTypeInfos[j].developerName = args.person_rt_dev_name

\* the name of a person-only field
PersonOnly(nm) ==
    \/ nm \in {"LastName", "FirstName", "Salutation"}
    \/ StartsWith(nm, "Person")
    \/ EndsWith(nm, "__pc")

\* C2: in a person row Name is empty and LastName and FirstName are non-empty; in
\* every other row Name is non-empty and every person-only field is empty; fields
\* that are skipped or non-createable are excepted.
C2_PersonOrBusiness ==
    RowJustWritten =>
      \A i \in Cols :
        ~Forced(i) =>
          IF PersonRow
          THEN /\ fields[i].name = "Name" => LastRow[i] = ""
               /\ fields[i].name \in {"LastName", "FirstName"} => LastRow[i] # ""
          ELSE /\ fields[i].name = "Name" => LastRow[i] # ""
               /\ PersonOnly(fields[i].name) => LastRow[i] = ""

\* a person row with Name, LastName and FirstName all generated
C2_Witness ==
    /\ RowJustWritten
    /\ PersonRow
    /\ \E i, j, k \in Cols :
         /\ fields[i].name = "Name" /\ ~Forced(i) /\ LastRow[i] = ""
         /\ fields[j].name = "LastName" /\ ~Forced(j) /\ LastRow[j] # ""
         /\ fields[k].name = "FirstName" /\ ~Forced(k) /\ LastRow[k] # ""

\* the ids of the record types of the document that are active and whose name
\* is not an excluded one
EligibleIds ==
    { meta.recordTypeInfos[j].recordTypeId :
        j \in { j \in 1..Len(meta.recordTypeInfos) :
                  /\ meta.recordTypeInfos[j].active
                  /\ meta.recordTypeInfos[j].name \notin {"マスター", "マスタ"} } }

\* C3: the RecordTypeId cell of every row is empty or the id of an active record
\* type with a non-excluded name, and is empty when there is no such record type.
C3_RecordTypeIdEligible ==
    RowJustWritten =>
      \A i \in Cols :
        fields[i].name = "RecordTypeId" =>
          /\ LastRow[i] = "" \/ LastRow[i] \in EligibleIds
          /\ EligibleIds = {} => LastRow[i] = ""

\* a row carries an eligible id although the document also lists an inactive and
\* a master record type
C3_Witness ==
    /\ RowJustWritten
    /\ \E i \in Cols : fields[i].name = "RecordTypeId" /\ LastRow[i] = "012P"
    /\ \E j \in 1..Len(meta.recordTypeInfos) : ~meta.recordTypeInfos[j].active
    /\ \E j \in 1..Len(meta.recordTypeInfos) : meta.recordTypeInfos[j].name = "マスター"

\* field i plays role in a compound group
HasRole(i, role) == CompOf(fields[i]) # "" /\ SuffixOf(fields[i]) = role

\* field j is the code field (codeRole) of the group of label field i, and cell
\* value label is the label of the option whose code is the cell value code
LabelOfCode(j, code, label) ==
    \E n \in 1..Len(fields[j].picklistValues) :
      /\ fields[j].picklistValues[n].value = code
      /\ fields[j].picklistValues[n].label = label

\* C4: in every row and compound group, a non-empty Country cell is the label of
\* the country option whose code is the row's CountryCode cell, and a non-empty
\* State cell is the label of the state option whose code is the StateCode cell.
C4_LabelsMatchCodes ==
    RowJustWritten =>
      \A i \in Cols :
        LastRow[i] # "" =>
          LET CodeRole == IF HasRole(i, "Country") THEN "CountryCode"
                          ELSE IF HasRole(i, "State") THEN "StateCode"
                          ELSE ""
          IN  CodeRole # "" =>
                \E j \in Cols : /\ HasRole(j, CodeRole)
                                /\ CompOf(fields[j]) = CompOf(fields[i])
                                /\ LabelOfCode(j, LastRow[j], LastRow[i])

\* a row with country CA / Canada and state ON / Ontario
C4_Witness ==
    /\ RowJustWritten
    /\ \E a, b, c, d \in Cols :
         /\ HasRole(a, "CountryCode") /\ LastRow[a] = "CA"
         /\ HasRole(b, "Country") /\ LastRow[b] = "Canada"
         /\ HasRole(c, "StateCode") /\ LastRow[c] = "ON"
         /\ HasRole(d, "State") /\ LastRow[d] = "Ontario"

\* the option of picklist field j whose code is v allows controller index idx
Allows(j, v, idx) ==
    \E m \in 1..Len(fields[j].picklistValues) :
      /\ fields[j].picklistValues[m].value = v
      /\ valid_for(decode_valid_for(fields[j].picklistValues[m].validFor), idx) = 1

\* some option of picklist field j allows controller index idx
AllowsAny(j, idx) ==
    \E m \in 1..Len(fields[j].picklistValues) :
      valid_for(decode_valid_for(fields[j].picklistValues[m].validFor), idx) = 1

\* C5: in every row and compound group, a non-empty StateCode cell is the code of
\* a state option allowed for the index of the row's chosen country, the option
\* whose code is in the row's CountryCode cell; when the chosen country allows no
\* state, StateCode and State are both empty.
C5_StateAllowedForCountry ==
    \A k \in Rows : \A c \in Cols :
      HasRole(c, "StateCode") =>
        /\ out[k][c] # "" =>
             \E a \in Cols :
               /\ HasRole(a, "CountryCode")
               /\ CompOf(fields[a]) = CompOf(fields[c])
               /\ \E n \in 1..Len(fields[a].picklistValues) :
                    /\ fields[a].picklistValues[n].value = out[k][a]
                    /\ Allows(c, out[k][c], n - 1)
        /\ \A a \in Cols : \A n \in 1..Len(fields[a].picklistValues) :
             ( /\ HasRole(a, "CountryCode")
               /\ CompOf(fields[a]) = CompOf(fields[c])
               /\ fields[a].picklistValues[n].value = out[k][a]
               /\ ~AllowsAny(c, n - 1) ) =>
               /\ out[k][c] = ""
               /\ \A d \in Cols :
                    (HasRole(d, "State") /\ CompOf(fields[d]) = CompOf(fields[c]))
                      => out[k][d] = ""

\* the index of cell value v in the option order of field j, 0 when it is not there
OptionIndex(j, v) ==
    LET hits == { n \in 1..Len(fields[j].picklistValues) :
                    fields[j].picklistValues[n].value = v }
    IN  IF hits = {} THEN 0 ELSE (CHOOSE n \in hits : \A m \in hits : n <= m) - 1

\* C6: in every row, a non-empty cell of a dependent picklist whose controller is a
\* field of the schema is an option allowed for the index of the controller's cell
\* of that row (0 when that cell is no option of the controller), wherever the
\* controller stands in the field order; when the controller is no field, a
\* non-empty cell is one of the field's own options.
C6_DependentAllowedForController ==
    \A k \in Rows : \A i \in Cols :
      (fields[i].controllerName # "" /\ out[k][i] # "") =>
        IF \E j \in Cols : fields[j].name = fields[i].controllerName
        THEN \A j \in Cols :
               fields[j].name = fields[i].controllerName =>
                 Allows(i, out[k][i], OptionIndex(j, out[k][j]))
        ELSE \E m \in 1..Len(fields[i].picklistValues) :
               fields[i].picklistValues[m].value = out[k][i]

\* the state options of field c allowed for country index idx, in option order
StatesFor(c, idx) ==
    LET Ok(o) == valid_for(decode_valid_for(o.validFor), idx) = 1
        kept == SelectSeq(fields[c].picklistValues, Ok)
    IN  [m \in 1..Len(kept) |-> [value |-> kept[m].value, label |-> kept[m].label]]

\* C8: once the tables are built, every compound group with a CountryCode and a
\* StateCode field has a state table with one entry per country option index,
\* listing the state options allowed for that index in option order, whichever of
\* the two fields comes first in the field list.
C8_StateTablePerCountryIndex ==
    HeaderWritten =>
      \A a, c \in Cols :
        ( /\ HasRole(a, "CountryCode")
          /\ HasRole(c, "StateCode")
          /\ CompOf(fields[a]) = CompOf(fields[c]) ) =>
          LET comp == CompOf(fields[c])
              n == Len(fields[a].picklistValues)
          IN  /\ comp \in DOMAIN state_map
              /\ DOMAIN state_map[comp] = 0..(n - 1)
              /\ \A idx \in 0..(n - 1) : state_map[comp][idx] = StatesFor(c, idx)

\* the names of the fields of the document that are not calculated and not
\* audit / system fields, in document order
FilteredNames ==
    LET Kept(f) == /\ ~f.calculated
                   /\ f.name \notin {"IsDeleted", "CreatedById", "CreatedDate",
                                     "LastModifiedById", "LastModifiedDate", "SystemModstamp"}
        kept == SelectSeq(Get(meta, "fields", << >>), Kept)
    IN  [i \in 1..Len(kept) |-> kept[i].name]

\* C9: the header lists the filtered field names in schema order, a finished run
\* has exactly the requested number of body rows, every body row has one cell per
\* header field, and the row handed to the writer has every field assigned (one of
\* unrecognised type with the empty string).
C9_HeaderAndRowCount ==
    /\ HeaderWritten => header = FilteredNames
    /\ Len(out) <= args.rows
    /\ pc = "done" => Len(out) = args.rows
    /\ \A k \in Rows : DOMAIN out[k] = 1..Len(header)
    /\ (pc = "fields" /\ fi > Len(fields)) =>
         /\ DOMAIN row = { header[i] : i \in 1..Len(header) }
         /\ \A i \in Cols :
              ( /\ ~Forced(i)
                /\ fields[i].type = "location"
                /\ fields[i].compoundFieldName = "" ) => row[fields[i].name] = ""

\* a finished run of two rows over a schema with a field of unrecognised type and
\* a finished run whose document had a calculated and a system field filtered out
C9_Witness ==
    /\ pc = "done"
    /\ args.rows = 2
    /\ Len(out) = 2
    /\ \/ \E i \in Cols : fields[i].type = "location" /\ ~Forced(i) /\ out[2][i] = ""
       \/ Len(Get(meta, "fields", << >>)) > Len(header)

\* C10: in every row, the cell of a createable, non-skipped field of type string
\* or textarea has at least the computed minimum of characters (0 if nillable,
\* otherwise 1) and at most the field's declared length, whatever its name.
C10_TextLengthWithinBounds ==
    \A k \in Rows : \A i \in Cols :
      (~Forced(i) /\ fields[i].type \in {"string", "textarea"}) =>
        /\ Len(out[k][i]) >= (IF fields[i].nillable THEN 0 ELSE 1)
        /\ Len(out[k][i]) <= fields[i].length

\* C11: a run whose document has no 'fields' entry, or whose field list is empty
\* once calculated and audit / system fields are filtered out, stops before the
\* header and before any row is written: no output with zero columns exists.
C11_EmptySchemaIsRejected ==
    FilteredNames = << >> => (~HeaderWritten /\ out = << >>)

\* C13: in every row and compound group, in whatever order the schema lists the
\* group's fields, a createable, non-skipped Country field holds the label of the
\* option whose code is in the row's (non-empty) CountryCode cell, and a
\* createable, non-skipped State field holds the label of the option whose code
\* is in the row's (non-empty) StateCode cell.
C13_LabelResolvedInAnyFieldOrder ==
    RowJustWritten =>
      \A a \in Cols : \A b \in Cols :
        LET LabelRole == IF HasRole(a, "CountryCode") THEN "Country"
                         ELSE IF HasRole(a, "StateCode") THEN "State"
                         ELSE ""
        IN  ( /\ LabelRole # ""
              /\ HasRole(b, LabelRole)
              /\ CompOf(fields[b]) = CompOf(fields[a])
              /\ ~Forced(b)
              /\ LastRow[a] # "" ) => LabelOfCode(a, LastRow[a], LastRow[b])

\* the field name falls under an identity rule: the record type id, the person
\* and business name fields, Person-prefixed and __pc-suffixed fields
IdentityNamed(nm) ==
    \/ nm \in {"RecordTypeId", "Name", "LastName", "FirstName", "Salutation"}
    \/ StartsWith(nm, "Person")
    \/ EndsWith(nm, "__pc")

\* C14: in every row, a createable, non-skipped field that declares no compound
\* group and whose name is under no identity rule has a cell produced by the
\* dispatch on its declared type (a text of at most its declared length for
\* string and textarea, the empty string for an unrecognised type) or, when it
\* names a controller, one of its own option values or the empty string; it is
\* never a compound-role value such as a coordinate, whatever its name is.
C14_NoGroupNoCompoundValue ==
    RowJustWritten =>
      \A i \in Cols :
        ( /\ ~Forced(i)
          /\ CompOf(fields[i]) = ""
          /\ ~IdentityNamed(fields[i].name) ) =>
          \/ LastRow[i] \in TypedValues(fields[i])
          \/ /\ fields[i].controllerName # ""
             /\ LastRow[i] \in Values(fields[i].picklistValues) \cup {""}

RECURSIVE FreshRowStates(_, _, _)
\* the row and selection states in which a row started empty for record type id
\* can be after its first n fields, over the random draws that give the cells of
\* the written row w (the field names of a describe document are distinct)
FreshRowStates(n, id, w) ==
    IF n = 0 THEN { [r |-> EmptyDict, sel |-> EmptyDict] }
    ELSE UNION { { [r |-> Put(s.r, fields[n].name, o.value), sel |-> o.sel] :
                     o \in { o \in FieldOutcomes(fields[n], s.r, s.sel, id,
                                                  IsPerson(args.person_rt_dev_name,
                                                           Get(id_to_dev, id, None)),
                                                  args.skips, country_map, state_map,
                                                  ctrl_vals_map, dep_map) :
                               o.value = w[n] } } :
                 s \in FreshRowStates(n - 1, id, w) }

\* w is a row that the schema, the configuration, the tables and the random draws
\* of one row give, with nothing carried over from an earlier row
FreshRow(w) ==
    \E id \in Choice(all_rts, "") :
      \E s \in FreshRowStates(Len(fields), id, w) : WrittenRow(header, s.r) = w

\* C12: the output depends on the schema, the configuration and the draws only,
\* and a row does not depend on an earlier row: no step after the header is
\* written changes the loaded schema, the configuration or the country, state,
\* controller-value and dependent-picklist tables, every row starts from an
\* empty row and an empty selection state, and every row written, whatever rows
\* precede it, is one that the draws of a single row give from that empty state.
C12_RowsIndependentOfHistory ==
    [][ /\ HeaderWritten =>
             /\ << fields, rtinfos, args, header >>' = << fields, rtinfos, args, header >>
             /\ << ctrl_vals_map, dep_map, country_map, state_map >>'
                  = << ctrl_vals_map, dep_map, country_map, state_map >>
        /\ (pc = "rows" /\ pc' = "fields") =>
             (fi' = 1 /\ row' = EmptyDict /\ comp_sel' = EmptyDict)
        /\ (pc = "fields" /\ pc' = "rows") =>
             (out' = Append(out, out'[Len(out')]) /\ FreshRow(out'[Len(out')]))
      ]_vars

\* a second row whose country differs from the country of the first row, in a
\* schema that lists the Country label field before the CountryCode field
C12_Witness ==
    /\ RowJustWritten
    /\ Len(out) = 2
    /\ \E a, b \in Cols :
         /\ HasRole(a, "CountryCode") /\ HasRole(b, "Country") /\ b < a
         /\ out[1][a] # "" /\ out[2][a] # "" /\ out[1][a] # out[2][a]

-----------------------------------------------------------------------------
(* decode_valid_for and valid_for on their own: an encoded mask is decoded *)
(* and asked for an index, or a byte sequence is asked directly.           *)

\* the validFor values decoded: absent (null and ''), well formed, with a wrong
\* length or padding, with characters outside the alphabet, with data after the
\* padding
EncodedMasks ==
    { None, "", "gA==", "IA==", "QA==", "wA==", "/+8=", "gAAA", "QUJDRA==",
      "g", "gA", "gA=", "gAA", "g===", "gAAAg", "g!A==", "gA==x" }

\* the byte values of the masks asked directly
ByteSamples == { 0, 1, 2, 16, 64, 127, 128, 129, 170, 255 }

\* the byte sequences of at most n of these bytes
ByteSeqs(n) == UNION { [1..m -> ByteSamples] : m \in 0..n }

InitVF ==
    /\ pc = "valid_for"
    /\ meta = [fields |-> << >>, recordTypeInfos |-> << >>]
    /\ args = [rows |-> 0, skips |-> {}, person_rt_dev_name |-> None]
    /\ fields = << >>
    /\ rtinfos = << >>
    /\ ctrl_vals_map = EmptyDict
    /\ dep_map = EmptyDict
    /\ country_map = EmptyDict
    /\ state_map = EmptyDict
    /\ bi = 1
    /\ header = << >>
    /\ out = << >>
    /\ rt = ""
    /\ is_person = FALSE
    /\ row = EmptyDict
    /\ comp_sel = EmptyDict
    /\ fi = 1
    /\ \/ \E v \in EncodedMasks :
            probe = [stage |-> "encoded", src |-> "encoded", enc |-> v, vb |-> << >>,
                     idx |-> 0, res |-> 0]
       \/ \E m \in ByteSeqs(MaxMaskLen) :
            probe = [stage |-> "mask", src |-> "bytes", enc |-> None, vb |-> m,
                     idx |-> 0, res |-> 0]

\* vb = decode_valid_for(o.get('validFor', ''))
DecodeMask ==
    /\ probe.stage = "encoded"
    /\ probe' = [probe EXCEPT !.stage = "mask", !.vb = decode_valid_for(probe.enc)]
    /\ UNCHANGED << pc, meta, args, fields, rtinfos, ctrl_vals_map, dep_map, country_map,
                    state_map, bi, header, out, rt, is_person, row, comp_sel, fi >>

\* valid_for(vb, idx) for an index inside or past the mask
QueryMask ==
    /\ probe.stage = "mask"
    /\ \E i \in 0..(8 * Len(probe.vb) + MaxIdxSlack) :
         probe' = [probe EXCEPT !.stage = "result", !.idx = i, !.res = valid_for(probe.vb, i)]
    /\ UNCHANGED << pc, meta, args, fields, rtinfos, ctrl_vals_map, dep_map, country_map,
                    state_map, bi, header, out, rt, is_person, row, comp_sel, fi >>

NextVF ==
    \/ DecodeMask
    \/ QueryMask

SpecVF == InitVF /\ [][NextVF]_vars

RECURSIVE MsbBits(_, _)
\* the n low bits of b, most significant first
MsbBits(b, n) == IF n = 0 THEN << >> ELSE Append(MsbBits(b \div 2, n - 1), b % 2)

RECURSIVE CountChars(_, _)
\* the number of characters of s that occur in the string chars
CountChars(s, chars) ==
    IF s = "" THEN 0
    ELSE (IF \E i \in 1..Len(chars) : SubSeq(chars, i, i) = SubSeq(s, 1, 1) THEN 1 ELSE 0)
         + CountChars(DropFirst(s, 1), chars)

\* an encoded mask base 64 cannot decode: no string at all, or one whose data
\* characters and trailing padding do not fill groups of four
Undecodable(v) ==
    \/ v = None
    \/ LET r == CountChars(v, B64Alphabet) % 4
           p == CountChars(v, "=")
       IN  r = 1 \/ (r = 2 /\ p < 2) \/ (r = 3 /\ p < 1)

=============================================================================
